---- MODULE Spec2Model ----
(***************************************************************************)
(* A model of the importers of likit (src/misc.py) and of the RRS decoder  *)
(* wrapper (src/wxprofilers/rrs.py).  Each function is a sequential        *)
(* program; it gets its own specification (SpecWind, SpecBalloon, ...)     *)
(* whose Init draws the function's arguments and files from bounded sets   *)
(* and whose actions are the function's steps in program order.            *)
(*                                                                         *)
(* Floating-point values are modelled as tuples: NaN is <<>>, an input     *)
(* number v is <<v>>, and a computed rational p/q is <<p, q>>.             *)
(***************************************************************************)
EXTENDS Integers, Sequences, FiniteSets, TLC

VARIABLES
    \* wind_regression
    wpc,        \* position in wind_regression: "start", "bin", "next", "done"
    elevation,  \* the elevation argument
    max_se,     \* the max_se argument
    los,        \* wdf.index.get_level_values('LOS ID'), one entry per row of wdf
    xmat,       \* the regression's direction vectors, one per row of wdf
    n,          \* the loop index over range bins
    wcol,       \* wdf.iloc[:, n]: the column of the bin being processed
    row,        \* resultsdf.loc[colnames[n]]: the result row of that bin
    \* weather_balloon
    bpc,        \* position in weather_balloon: "start", "meta", "read", "done", "error"
    fs,         \* the file system: path -> lines of the file
    fname,      \* the fname argument
    header_end, \* index of the blank line that ends the header block
    b1,         \* the telemetry table
    \* lidar_from_csv
    lpc,        \* position: "start", "read", "dataset", "named", "merged", "done", "error"
    csv_columns,      \* the measurement columns of the radial-wind CSV
    wind,             \* whether a wind-component CSV is given
    time_coord,       \* xarray.coords['Time'].values
    range_coord,      \* xarray.coords['Range'].values
    wind_times,       \* wind_small.index.values
    wind_ranges,      \* wind_small.columns.levels[1].values
    measurement_vars, \* the variables that go in the dataset
    data_vars,        \* the data variables of the dataset
    row_indices,
    col_indices,
    \* mwr_from_csv
    mpc,        \* position: "start", "split", "done", "error"
    lines,      \* the lines of the dump
    types,      \* the type code of each line
    headers,    \* the indices of the header lines
    hpos,       \* how many header lines the loop has been through
    csvs,       \* type code -> the lines of its table, as indices into lines
    \* decode_rrs
    rpc,        \* position: "start", "done"
    bufrin, outputs, outdir,  \* the arguments
    calls       \* the calls of rrs_.rrs_decoder made so far

windVars == <<wpc, elevation, max_se, los, xmat, n, wcol, row>>
balloonVars == <<bpc, fs, fname, header_end, b1>>
lidarVars == <<lpc, csv_columns, wind, time_coord, range_coord, wind_times,
               wind_ranges, measurement_vars, data_vars, row_indices, col_indices>>
mwrVars == <<mpc, lines, types, headers, hpos, csvs>>
rrsVars == <<rpc, bufrin, outputs, outdir, calls>>

vars == <<windVars, balloonVars, lidarVars, mwrVars, rrsVars>>

\* what a step of one function leaves alone
notWind == <<balloonVars, lidarVars, mwrVars, rrsVars>>
notBalloon == <<windVars, lidarVars, mwrVars, rrsVars>>
notLidar == <<windVars, balloonVars, mwrVars, rrsVars>>
notMwr == <<windVars, balloonVars, lidarVars, rrsVars>>
notRrs == <<windVars, balloonVars, lidarVars, mwrVars>>

NaN == <<>>

(***************************************************************************)
(* wind_regression                                                         *)
(***************************************************************************)

\* Bounds of the wind model.
NCols == 2          \* range bins per call

\* Trigonometry in fixed point, unit 1/4, rounded to the nearest unit:
\* cos 75 = 0.26 -> 1, sin 75 = 0.97 -> 4, cos 60 = 0.5 -> 2, sin 60 = 0.87 -> 3,
\* cos 90 -> 0, sin 90 -> 4.
CosQ(deg) == CASE deg = 60 -> 2 [] deg = 75 -> 1 [] deg = 90 -> 0
SinQ(deg) == CASE deg = 60 -> 3 [] deg = 75 -> 4 [] deg = 90 -> 4

\* sin and cos of az = los * pi / 2 (exact)
SinAz(l) == CASE l % 4 = 0 -> 0 [] l % 4 = 1 -> 1 [] l % 4 = 2 -> 0 [] l % 4 = 3 -> -1
CosAz(l) == CASE l % 4 = 0 -> 1 [] l % 4 = 1 -> 0 [] l % 4 = 2 -> -1 [] l % 4 = 3 -> 0

\* The direction vector of a line of sight at azimuth los*pi/2 and elevation deg
Direction(l, deg) == <<SinAz(l) * CosQ(deg), CosAz(l) * CosQ(deg), SinQ(deg)>>

\* el = np.repeat(np.pi * 75 / 180, len(los)); el[los == 4] = np.pi / 2
\* (the elevation argument elev is not read)
El(l, elev) == IF l = 4 THEN 90 ELSE 75

\* xmat = np.array([x, y, z]).transpose()
Xmat(idx, elev) == [i \in DOMAIN idx |-> Direction(idx[i], El(idx[i], elev))]

\* notnan = np.logical_not(np.isnan(ymat[:, 0]))
NotNan(col) == {i \in DOMAIN col : col[i] # NaN}

\* uniq_los = los[notnan].unique()
UniqLos(idx, col) == {idx[i] : i \in NotNan(col)}

\* SkipsBin without the test of the 3-LOS geometry
SkipsBin_CountOnly(uniq_los) == Cardinality(uniq_los) < 3

\* the test that makes the loop `continue`
SkipsBin(uniq_los) ==
    \/ Cardinality(uniq_los) < 3
    \/ /\ Cardinality(uniq_los) = 3
       /\ \/ (0 \notin uniq_los /\ 2 \notin uniq_los)
          \/ (1 \notin uniq_los /\ 3 \notin uniq_los)

\* ---- ordinary least squares on the rows without NaN (missing='drop') ----

RECURSIVE SumTo(_, _)
\* f[1] + ... + f[k]
SumTo(f, k) == IF k = 0 THEN 0 ELSE f[k] + SumTo(f, k - 1)

\* Ymat without the change of sign
Ymat_NoNegation(col) == [i \in DOMAIN col |-> IF col[i] = NaN THEN 0 ELSE col[i][1]]

\* ymat = -np.array([wdf.iloc[:, n]]).transpose(), 0 standing in a dropped row
Ymat(col) == [i \in DOMAIN col |-> IF col[i] = NaN THEN 0 ELSE -(col[i][1])]

\* X'X over the rows used
XtX(X, col) ==
    [j \in 1..3 |-> [k \in 1..3 |->
        SumTo([i \in DOMAIN col |-> IF col[i] = NaN THEN 0 ELSE X[i][j] * X[i][k]],
              Len(col))]]

\* X'y over the rows used
Xty(X, col) ==
    [j \in 1..3 |->
        SumTo([i \in DOMAIN col |-> X[i][j] * Ymat(col)[i]], Len(col))]

Yty(col) == SumTo([i \in DOMAIN col |-> Ymat(col)[i] * Ymat(col)[i]], Len(col))

Det3(M) ==
      M[1][1] * (M[2][2] * M[3][3] - M[2][3] * M[3][2])
    - M[1][2] * (M[2][1] * M[3][3] - M[2][3] * M[3][1])
    + M[1][3] * (M[2][1] * M[3][2] - M[2][2] * M[3][1])

\* the adjugate of a symmetric 3x3 matrix
Adj3(M) ==
    LET c(a, b, p, q) == M[a][p] * M[b][q] - M[a][q] * M[b][p]
    IN  << << c(2, 3, 2, 3), -c(2, 3, 1, 3),  c(2, 3, 1, 2)>>,
           <<-c(1, 3, 2, 3),  c(1, 3, 1, 3), -c(1, 3, 1, 2)>>,
           << c(1, 2, 2, 3), -c(1, 2, 1, 3),  c(1, 2, 1, 2)>> >>

\* model = sm.OLS(ymat, xmat, missing='drop'); results = model.fit().
\* params[j] is the rational pnum[j] / det; the residual sum of squares is
\* ssr / det; bse[j]^2 = (ssr / det) / df_resid * (adj[j][j] / det).
\* With df_resid = 0 the scale is 0/0 or x/0: bse is not finite, NaN or inf
\* according to rounding (nonfin).
OLS(X, col, nonfin) ==
    LET A    == XtX(X, col)
        b    == Xty(X, col)
        det  == Det3(A)
        adj  == Adj3(A)
        pnum == [j \in 1..3 |-> adj[j][1] * b[1] + adj[j][2] * b[2] + adj[j][3] * b[3]]
        ssr  == det * Yty(col) - (b[1] * pnum[1] + b[2] * pnum[2] + b[3] * pnum[3])
        df   == Cardinality(NotNan(col)) - 3
    IN  [params |-> [j \in 1..3 |-> <<pnum[j], det>>],
         bse    |-> [j \in 1..3 |->
                        IF df <= 0 \/ det = 0
                        THEN [kind |-> nonfin, num |-> 0, den |-> 1]
                        ELSE [kind |-> "fin", num |-> ssr * adj[j][j],
                              den |-> det * det * df]]]

\* se > max_se, for a standard error se with se^2 = num/den and mx >= 0
SeGreater(se, mx) ==
    CASE se.kind = "inf" -> TRUE
      [] se.kind = "nan" -> FALSE
      [] OTHER           -> se.num > mx * mx * se.den

\* np.isfinite(se)
IsFinite(se) == se.kind = "fin"

\* Discarded without the test for a non-finite standard error
Discarded_ThresholdOnly(se, mx) == SeGreater(se, mx)

\* coefs[np.logical_or(se > max_se, np.logical_not(np.isfinite(se)))] = np.nan
Discarded(se, mx) == SeGreater(se, mx) \/ ~IsFinite(se)

Coefs(fit, mx) ==
    [j \in 1..3 |-> IF Discarded(fit.bse[j], mx) THEN NaN ELSE fit.params[j]]

\* df_data = np.concatenate((coefs, results.bse))
DfData(fit, mx) == [written |-> TRUE, coefs |-> Coefs(fit, mx), se |-> fit.bse]

\* a row of resultsdf = pd.DataFrame(index=colnames, columns=df_columns)
EmptyRow == [written |-> FALSE, coefs |-> <<NaN, NaN, NaN>>,
             se |-> [j \in 1..3 |-> [kind |-> "nan", num |-> 0, den |-> 1]]]

\* ---- the inputs ----

Elevations == {60, 75}
MaxSes == {1, 2}
\* wdf's LOS index: one scan cycle, the four slanted beams, and a frame with
\* repeated beams
Layouts == {<<0, 1, 2, 3, 4>>, <<0, 1, 2, 3>>, <<0, 2, 0, 1, 3>>}
WindVals == {-1, 2}
Truths == [1..3 -> WindVals]
\* a reading is missing (NaN), exact, or off by 4 units (1 m/s)
Noises == {NaN, <<0>>, <<4>>}

\* the radial velocity of wind v on direction d
Project(d, v) == d[1] * v[1] + d[2] * v[2] + d[3] * v[3]

\* a column of wdf: the projections of a wind vector, with gaps and errors
Column(idx, v, noise) ==
    [i \in DOMAIN idx |->
        IF noise[i] = NaN THEN NaN
        ELSE <<Project(Direction(idx[i], IF idx[i] = 4 THEN 90 ELSE 75), v) + noise[i][1]>>]

Columns(idx) == {Column(idx, v, ns) : v \in Truths, ns \in [DOMAIN idx -> Noises]}

\* ---- the program ----

\* the state of a function that is not called
WindIdle ==
    /\ wpc = "idle" /\ elevation = 75 /\ max_se = 1 /\ los = <<>>
    /\ xmat = <<>> /\ n = 0 /\ wcol = <<>> /\ row = <<>>

BalloonIdle ==
    /\ bpc = "idle" /\ fs = <<>> /\ fname = "" /\ header_end = 0 /\ b1 = <<>>

LidarIdle ==
    /\ lpc = "idle" /\ csv_columns = {} /\ wind = FALSE
    /\ time_coord = <<>> /\ range_coord = <<>> /\ wind_times = <<>> /\ wind_ranges = <<>>
    /\ measurement_vars = {} /\ data_vars = {} /\ row_indices = <<>> /\ col_indices = <<>>

MwrIdle ==
    /\ mpc = "idle" /\ lines = <<>> /\ types = <<>> /\ headers = <<>>
    /\ hpos = 0 /\ csvs = <<>>

RrsIdle ==
    /\ rpc = "idle" /\ bufrin = "" /\ outputs = "" /\ outdir = <<>> /\ calls = <<>>

WindInit ==
    /\ BalloonIdle /\ LidarIdle /\ MwrIdle /\ RrsIdle
    /\ wpc = "start"
    /\ elevation \in Elevations
    /\ max_se \in MaxSes
    /\ los \in Layouts
    /\ xmat = <<>>
    /\ n = 0
    /\ wcol = <<>>
    /\ row = EmptyRow

\* lines 201-214: the geometry and the empty result frame
WindSetup ==
    /\ wpc = "start"
    /\ xmat' = Xmat(los, elevation)
    /\ wpc' = "bin"
    /\ UNCHANGED <<elevation, max_se, los, n, wcol, row>>
    /\ UNCHANGED notWind

\* lines 216-228: bin n is skipped (continue), its row stays as created
WindSkip ==
    /\ wpc = "bin"
    /\ \E col \in Columns(los) :
        /\ SkipsBin(UniqLos(los, col))
        /\ wcol' = col
    /\ wpc' = "next"
    /\ UNCHANGED <<elevation, max_se, los, xmat, n, row>>
    /\ UNCHANGED notWind

\* lines 216-241: bin n is fitted and its row written
WindFit ==
    /\ wpc = "bin"
    /\ \E col \in Columns(los), nonfin \in {"nan", "inf"} :
        /\ ~SkipsBin(UniqLos(los, col))
        /\ wcol' = col
        /\ row' = DfData(OLS(xmat, col, nonfin), max_se)
    /\ wpc' = "next"
    /\ UNCHANGED <<elevation, max_se, los, xmat, n>>
    /\ UNCHANGED notWind

\* line 216: the loop moves to the next bin, whose row is as created
WindAdvance ==
    /\ wpc = "next"
    /\ n + 1 < NCols
    /\ n' = n + 1
    /\ wcol' = <<>>
    /\ row' = EmptyRow
    /\ wpc' = "bin"
    /\ UNCHANGED <<elevation, max_se, los, xmat>>
    /\ UNCHANGED notWind

\* line 243
WindReturn ==
    /\ wpc = "next"
    /\ n + 1 = NCols
    /\ wpc' = "done"
    /\ UNCHANGED <<elevation, max_se, los, xmat, n, wcol, row>>
    /\ UNCHANGED notWind

WindNext == WindSetup \/ WindSkip \/ WindFit \/ WindAdvance \/ WindReturn

SpecWind == WindInit /\ [][WindNext]_vars

(***************************************************************************)
(* weather_balloon                                                         *)
(***************************************************************************)

MaxRows == 2        \* telemetry rows per file

\* Times of day and elapsed times, in ticks; a day is DayTicks ticks.
TimesOfDay == {0, 1, 2}
DayTicks == Cardinality(TimesOfDay)
Elapseds == {0, 1, 2}

\* the lines of a telemetry file
MetaLine  == [kind |-> "meta", t |-> 0, e |-> 0]
BlankLine == [kind |-> "blank", t |-> 0, e |-> 0]
ColsLine  == [kind |-> "cols", t |-> 0, e |-> 0]
DataLine(t, e) == [kind |-> "row", t |-> t, e |-> e]

\* a file: h lines of metadata, a blank line, the column names, the rows
BalloonFile(h, rows) ==
    [i \in 1..h |-> MetaLine] \o <<BlankLine, ColsLine>> \o rows

Tables ==
    UNION {[1..k -> {DataLine(t, e) : t \in TimesOfDay, e \in Elapseds}] : k \in 1..MaxRows}

\* the path written in the call of pd.read_csv
DataPath == "../data/balloon/FLT_010117_0000_PROC.txt.TXT"
OtherPath == "flight.txt"
Paths == {DataPath, OtherPath}

\* header_end = np.where([line == '\r\n' for line in lines])[0][0]
HeaderEnd(flines) ==
    (CHOOSE i \in 1..Len(flines) :
        /\ flines[i].kind = "blank"
        /\ \A j \in 1..(i - 1) : flines[j].kind # "blank") - 1

\* s without its first k elements
Drop(s, k) == IF k >= Len(s) THEN <<>> ELSE SubSeq(s, k + 1, Len(s))

\* pd.read_csv(path, sep=';', index_col=False, skiprows=k): the lines after the
\* first k, blank lines skipped, the first of them the column names.  The
\* result is the data rows, or "error" when the column names are not there
\* (b1['Time Stamp'] then raises).
ReadCsv(flines, k) ==
    LET rest == SelectSeq(Drop(flines, k), LAMBDA l : l.kind # "blank")
    IN  IF rest = <<>> \/ rest[1].kind # "cols"
          \/ \E i \in 2..Len(rest) : rest[i].kind # "row"
        THEN "error"
        ELSE Drop(rest, 1)

\* the file weather_balloon reads its table from
ReadPath(name) == DataPath

\* time_lower: the time stamp decreased from row i to row i + 1
TimeLower(tab) == [i \in 1..(Len(tab) - 1) |-> tab[i + 1].ts - tab[i].ts < 0]

\* elapsed_time: Elapsed Time did not decrease from row i to row i + 1
ElapsedOk(tab) == [i \in 1..(Len(tab) - 1) |-> tab[i + 1].e - tab[i].e >= 0]

RECURSIVE CumSum(_, _)
\* np.cumsum of the booleans f[1..k]: the sequence of partial counts
CumSum(f, k) ==
    IF k = 0 THEN <<>>
    ELSE LET prev == CumSum(f, k - 1)
         IN  Append(prev, (IF k = 1 THEN 0 ELSE prev[k - 1]) + (IF f[k] THEN 1 ELSE 0))

\* DaysAhead without np.insert: the offsets are applied one row early
DaysAhead_NoInsert(tab) ==
    LET both == [i \in 1..(Len(tab) - 1) |-> TimeLower(tab)[i] /\ ElapsedOk(tab)[i]]
    IN  CumSum(both, Len(tab) - 1) \o <<0>>

\* days_ahead = np.insert(np.cumsum(np.logical_and(time_lower, elapsed_time)), 0, 0)
DaysAhead(tab) ==
    LET both == [i \in 1..(Len(tab) - 1) |-> TimeLower(tab)[i] /\ ElapsedOk(tab)[i]]
    IN  <<0>> \o CumSum(both, Len(tab) - 1)

BalloonInit ==
    /\ WindIdle /\ LidarIdle /\ MwrIdle /\ RrsIdle
    /\ bpc = "start"
    /\ \E h \in {1, 2}, rows \in Tables, other \in
            {BalloonFile(1, <<DataLine(1, 0)>>),
             BalloonFile(2, <<DataLine(2, 1), DataLine(0, 2)>>)} :
          fs = [p \in Paths |-> IF p = DataPath THEN BalloonFile(h, rows) ELSE other]
    /\ fname \in Paths
    /\ header_end = 0
    /\ b1 = <<>>

\* lines 291-308: the header block of the file named fname
BalloonReadMeta ==
    /\ bpc = "start"
    /\ header_end' = HeaderEnd(fs[fname])
    /\ bpc' = "meta"
    /\ UNCHANGED <<fs, fname, b1>>
    /\ UNCHANGED notBalloon

\* lines 310-315: the table, with the date added to the time stamps (time
\* stamps are ticks since midnight of the flight's date)
BalloonReadData ==
    /\ bpc = "meta"
    /\ LET tab == ReadCsv(fs[ReadPath(fname)], header_end + 1)
       IN  IF tab = "error"
           THEN bpc' = "error" /\ b1' = b1
           ELSE /\ bpc' = "read"
                /\ b1' = [i \in 1..Len(tab) |->
                             [t |-> tab[i].t, e |-> tab[i].e, ts |-> tab[i].t]]
    /\ UNCHANGED <<fs, fname, header_end>>
    /\ UNCHANGED notBalloon

\* lines 317-325: the day-rollover correction
BalloonFixDates ==
    /\ bpc = "read"
    /\ b1' = [i \in 1..Len(b1) |->
                 [b1[i] EXCEPT !.ts = b1[i].ts + DayTicks * DaysAhead(b1)[i]]]
    /\ bpc' = "done"
    /\ UNCHANGED <<fs, fname, header_end>>
    /\ UNCHANGED notBalloon

BalloonNext == BalloonReadMeta \/ BalloonReadData \/ BalloonFixDates

SpecBalloon == BalloonInit /\ [][BalloonNext]_vars

(***************************************************************************)
(* lidar_from_csv                                                          *)
(***************************************************************************)

MaxTime == 2        \* grid and wind timestamps are in 0..MaxTime (+1 for wind)
MaxRange == 1       \* grid and wind ranges are in 0..MaxRange (+1 for wind)

\* line 23
MeasurementVars ==
    {"RWS [m/s]", "DRWS [m/s]", "CNR [db]", "Confidence Index [%]", "Mean Error", "Status"}

\* the names xarray.rename gives the measurement variables (lines 58-60, 75, 84)
Renamed(v) ==
    CASE v = "RWS [m/s]" -> "RWS"
      [] v = "DRWS [m/s]" -> "DRWS"
      [] v = "CNR [db]" -> "CNR"
      [] v = "Confidence Index [%]" -> "Confidence"
      [] v = "Mean Error" -> "Error"
      [] OTHER -> v

\* the variables whose attributes lines 63-68 set without a test
NeededVars == {"RWS [m/s]", "DRWS [m/s]", "CNR [db]"}

RECURSIVE SortedSeq(_)
\* the elements of a set of numbers in increasing order (a pivot's index)
SortedSeq(S) ==
    IF S = {} THEN <<>>
    ELSE LET m == CHOOSE x \in S : \A y \in S : x <= y
         IN  <<m>> \o SortedSeq(S \ {m})

\* np.searchsorted(a, v) for one value v: the 0-based index of the first
\* element of the sorted a that is not below v, len(a) when there is none
SearchSorted(a, v) == Cardinality({i \in 1..Len(a) : a[i] < v})

Grids(mx) == {SortedSeq(S) : S \in (SUBSET (0..mx)) \ {{}}}

LidarInit ==
    /\ WindIdle /\ BalloonIdle /\ MwrIdle /\ RrsIdle
    /\ lpc = "start"
    /\ csv_columns \in SUBSET MeasurementVars
    /\ wind \in BOOLEAN
    /\ time_coord \in Grids(MaxTime)
    /\ range_coord \in Grids(MaxRange)
    /\ IF wind
       THEN /\ wind_times \in {<<t>> : t \in 0..(MaxTime + 1)}
            /\ wind_ranges \in {<<r>> : r \in 0..(MaxRange + 1)}
       ELSE wind_times = <<>> /\ wind_ranges = <<>>
    /\ measurement_vars = {}
    /\ data_vars = {}
    /\ row_indices = <<>>
    /\ col_indices = <<>>

\* lines 14-34: the pivot and the list of variables
LidarRead ==
    /\ lpc = "start"
    /\ measurement_vars' = MeasurementVars \cap csv_columns
    /\ lpc' = "read"
    /\ UNCHANGED <<csv_columns, wind, time_coord, range_coord, wind_times,
                   wind_ranges, data_vars, row_indices, col_indices>>
    /\ UNCHANGED notLidar

\* lines 52-72: the dataset, its renaming and the attributes of RWS, DRWS, CNR
LidarDataset ==
    /\ lpc = "read"
    /\ IF NeededVars \subseteq measurement_vars
       THEN /\ data_vars' = {IF v \in NeededVars THEN Renamed(v) ELSE v :
                                v \in measurement_vars}
            /\ lpc' = "dataset"
       ELSE /\ data_vars' = data_vars
            /\ lpc' = "error"
    /\ UNCHANGED <<csv_columns, wind, time_coord, range_coord, wind_times,
                   wind_ranges, measurement_vars, row_indices, col_indices>>
    /\ UNCHANGED notLidar

\* lines 74-85: the optional variables
LidarOptional ==
    /\ lpc = "dataset"
    /\ data_vars' = {Renamed(v) : v \in data_vars}
    /\ lpc' = "named"
    /\ UNCHANGED <<csv_columns, wind, time_coord, range_coord, wind_times,
                   wind_ranges, measurement_vars, row_indices, col_indices>>
    /\ UNCHANGED notLidar

\* lines 87-111: the wind components
LidarWind ==
    /\ lpc = "named"
    /\ wind
    /\ row_indices' = [k \in DOMAIN wind_times |-> SearchSorted(time_coord, wind_times[k])]
    /\ col_indices' = [k \in DOMAIN wind_ranges |-> SearchSorted(range_coord, wind_ranges[k])]
    /\ data_vars' = data_vars \cup {"Windspeed"}
    /\ lpc' = "merged"
    /\ UNCHANGED <<csv_columns, wind, time_coord, range_coord, wind_times,
                   wind_ranges, measurement_vars>>
    /\ UNCHANGED notLidar

\* lines 113-117
LidarReturn ==
    /\ lpc = "merged" \/ (lpc = "named" /\ ~wind)
    /\ lpc' = "done"
    /\ UNCHANGED <<csv_columns, wind, time_coord, range_coord, wind_times,
                   wind_ranges, measurement_vars, data_vars, row_indices, col_indices>>
    /\ UNCHANGED notLidar

LidarNext == LidarRead \/ LidarDataset \/ LidarOptional \/ LidarWind \/ LidarReturn

SpecLidar == LidarInit /\ [][LidarNext]_vars

(***************************************************************************)
(* mwr_from_csv                                                            *)
(***************************************************************************)

MaxLines == 4       \* lines per dump

\* the type codes in the dumps
TypeCodes == {100, 101, 104, 105, 106}

\* a line: whether it starts with "Record", and the number in its third field
Dumps ==
    UNION {[1..k -> [rec : BOOLEAN, type : TypeCodes]] : k \in 0..MaxLines}

\* AcceptableTypes with range(0, 5) for [1, 2, 3, 4]
AcceptableTypes_FromZero(t) == {t + d : d \in 0..4}

\* acceptable_types = np.array([1, 2, 3, 4]); acceptable_types += types[n]
AcceptableTypes(t) == {t + d : d \in 1..4}

\* where_is_type: the indices of the lines of an acceptable type, in order
WhereIsType(ts, t) == SelectSeq([i \in 1..Len(ts) |-> i],
                                LAMBDA i : ts[i] \in AcceptableTypes(t))

\* csvs[key] = val
DictSet(d, key, val) ==
    [k \in (DOMAIN d) \cup {key} |-> IF k = key THEN val ELSE d[k]]

MwrInit ==
    /\ WindIdle /\ BalloonIdle /\ LidarIdle /\ RrsIdle
    /\ mpc = "start"
    /\ lines \in Dumps
    /\ types = <<>>
    /\ headers = <<>>
    /\ hpos = 0
    /\ csvs = <<>>

\* lines 121-131: the type and the header test of each line; np.nditer raises
\* when there is no header line
MwrClassify ==
    /\ mpc = "start"
    /\ types' = [i \in 1..Len(lines) |-> lines[i].type]
    /\ headers' = SelectSeq([i \in 1..Len(lines) |-> i], LAMBDA i : lines[i].rec)
    /\ mpc' = IF headers' = <<>> THEN "error" ELSE "split"
    /\ UNCHANGED <<lines, hpos, csvs>>
    /\ UNCHANGED notMwr

\* lines 132-145: one turn of the loop over the header lines
MwrSplit ==
    /\ mpc = "split"
    /\ hpos < Len(headers)
    /\ LET hn == headers[hpos + 1]
           where_is_type == WhereIsType(types, types[hn])
       IN  csvs' = IF Len(where_is_type) > 0
                   THEN DictSet(csvs, types[hn], <<hn>> \o where_is_type)
                   ELSE csvs
    /\ hpos' = hpos + 1
    /\ UNCHANGED <<mpc, lines, types, headers>>
    /\ UNCHANGED notMwr

\* the loop is over
MwrSplitDone ==
    /\ mpc = "split"
    /\ hpos = Len(headers)
    /\ mpc' = "done"
    /\ UNCHANGED <<lines, types, headers, hpos, csvs>>
    /\ UNCHANGED notMwr

MwrNext == MwrClassify \/ MwrSplit \/ MwrSplitDone

SpecMwr == MwrInit /\ [][MwrNext]_vars

(***************************************************************************)
(* decode_rrs                                                              *)
(***************************************************************************)

MaxPath == 3        \* characters per path

PathChars == {"/", "a", "."}
PathStrings == UNION {[1..k -> PathChars] : k \in 0..MaxPath}

RECURSIVE SplitPath(_, _)
\* s.split('/'), cur being the component read so far
SplitPath(s, cur) ==
    IF s = <<>> THEN <<cur>>
    ELSE IF Head(s) = "/" THEN <<cur>> \o SplitPath(Tail(s), <<>>)
         ELSE SplitPath(Tail(s), Append(cur, Head(s)))

RECURSIVE JoinPath(_)
\* '/'.join(parts)
JoinPath(parts) ==
    IF parts = <<>> THEN <<>>
    ELSE IF Len(parts) = 1 THEN parts[1]
         ELSE parts[1] \o <<"/">> \o JoinPath(Tail(parts))

\* the number of '/' s starts with
LeadingSlashes(s) ==
    Cardinality({k \in 1..Len(s) : \A j \in 1..k : s[j] = "/"})

\* the root PurePosixPath gives s: '', '/', or '//' for exactly two slashes
PathRoot(s) ==
    CASE LeadingSlashes(s) = 0 -> <<>>
      [] LeadingSlashes(s) = 2 -> <<"/", "/">>
      [] OTHER -> <<"/">>

\* the parts PurePosixPath keeps: neither empty nor '.'
PathParts(s) == SelectSeq(SplitPath(s, <<>>), LAMBDA c : c # <<>> /\ c # <<".">>)

\* str(Path(s))
PathStr(s) ==
    IF PathRoot(s) = <<>> /\ PathParts(s) = <<>> THEN <<".">>
    ELSE PathRoot(s) \o JoinPath(PathParts(s))

RrsInit ==
    /\ WindIdle /\ BalloonIdle /\ LidarIdle /\ MwrIdle
    /\ rpc = "start"
    /\ bufrin \in {"a.bufr", "b.bufr"}
    /\ outputs \in {"p", "pt"}
    /\ outdir \in PathStrings
    /\ calls = <<>>

\* lines 13-15
DecodeRrs ==
    /\ rpc = "start"
    /\ LET out == PathStr(outdir) \o <<"/">>
       IN  calls' = Append(calls, <<bufrin, outputs, out>>)
    /\ rpc' = "done"
    /\ UNCHANGED <<bufrin, outputs, outdir>>
    /\ UNCHANGED notRrs

RrsNext == DecodeRrs

SpecRrs == RrsInit /\ [][RrsNext]_vars

(***************************************************************************)
(* Properties of wind_regression                                           *)
(***************************************************************************)

BinProcessed == wpc \in {"next", "done"}

\* the direction vectors of the lines of sight in U span three dimensions
Spans3(U) ==
    \E a \in U, b \in U, c \in U :
        Det3(<<Direction(a, El(a, elevation)), Direction(b, El(b, elevation)),
               Direction(c, El(c, elevation))>>) # 0

\* C1: a bin's result row is left as created (nothing written) when the lines
\* of sight with a non-NaN value are fewer than three or their direction
\* vectors do not span three dimensions; in every other case the row is written.
C1_SkipIffDegenerate ==
    BinProcessed =>
        LET U == UniqLos(los, wcol)
            degenerate == Cardinality(U) < 3 \/ ~Spans3(U)
        IN  /\ degenerate => row = EmptyRow
            /\ ~degenerate => row.written

\* a bin with the three lines of sight 0, 2, 4 has been skipped
C1_Witness ==
    /\ wpc = "next"
    /\ UniqLos(los, wcol) = {0, 2, 4}
    /\ ~row.written

\* se > max_se, read off the reported standard error
C2_Exceeds(se) ==
    \/ se.kind = "inf"
    \/ se.kind = "fin" /\ se.num > max_se * max_se * se.den

\* C2: in a fitted bin each coefficient is NaN exactly when its standard error
\* exceeds max_se or is not finite, otherwise it is the fitted value; the
\* standard errors are reported as fitted.
C2_DiscardIffBadSe ==
    (BinProcessed /\ row.written) =>
        \E nonfin \in {"nan", "inf"} :
            LET fit == OLS(xmat, wcol, nonfin)
            IN  /\ row.se = fit.bse
                /\ \A j \in 1..3 :
                    /\ row.coefs[j] = NaN <=>
                          (C2_Exceeds(row.se[j]) \/ row.se[j].kind # "fin")
                    /\ row.coefs[j] # NaN => row.coefs[j] = fit.params[j]

\* a fitted bin where one component is discarded for a finite standard error
\* above max_se and another component is kept
C2_Witness ==
    /\ wpc = "next"
    /\ row.written
    /\ \E j \in 1..3 : row.se[j].kind = "fin" /\ row.coefs[j] = NaN
    /\ \E j \in 1..3 : row.coefs[j] # NaN

\* the column holds, for the lines of sight 0..3 and only for them, the exact
\* projections of the wind v on the directions of the regression
Synthetic4(v) ==
    /\ wpc # "start"
    /\ UniqLos(los, wcol) = {0, 1, 2, 3}
    /\ \A i \in DOMAIN los :
          IF los[i] = 4 THEN wcol[i] = NaN
          ELSE wcol[i] = <<Project(xmat[i], v)>>

\* C3 as stated: the regression returns the wind vector the radial velocities
\* were projected from.
C3_RecoversTruth ==
    \A v \in Truths :
        (BinProcessed /\ Synthetic4(v)) =>
            /\ row.written
            /\ \A j \in 1..3 :
                /\ row.coefs[j] # NaN
                /\ row.coefs[j][1] = v[j] * row.coefs[j][2]

\* C3 amended: the regression returns the negated wind vector.
C3_RecoversNegatedTruth ==
    \A v \in Truths :
        (BinProcessed /\ Synthetic4(v)) =>
            /\ row.written
            /\ \A j \in 1..3 :
                /\ row.coefs[j] # NaN
                /\ row.coefs[j][2] > 0
                /\ row.coefs[j][1] = -(v[j]) * row.coefs[j][2]

\* a synthetic bin of the wind (2, -1, 2) has been fitted
C3_Witness ==
    /\ wpc = "next"
    /\ Synthetic4(<<2, -1, 2>>)
    /\ row.written

\* C10: the slanted lines of sight are at the elevation given by the
\* elevation argument, the line of sight 4 is vertical.
C10_ElevationSetsGeometry ==
    wpc # "start" =>
        \A i \in DOMAIN los :
            xmat[i] = Direction(los[i], IF los[i] = 4 THEN 90 ELSE elevation)

(***************************************************************************)
(* Properties of weather_balloon                                           *)
(***************************************************************************)

\* the time stamps never decrease from one row to the next
Monotonic(tab) == \A i \in 1..(Len(tab) - 1) : tab[i + 1].ts >= tab[i].ts

\* the number of adjacent pairs before row i where the time of day decreased
\* while Elapsed Time did not
Rollovers(tab, i) ==
    Cardinality({j \in 1..(i - 1) : tab[j + 1].t < tab[j].t /\ tab[j + 1].e >= tab[j].e})

DataRows(flines) == SelectSeq(flines, LAMBDA l : l.kind = "row")

\* C9: the rows returned are the rows of the file named by fname.
C9_ReadsNamedFile ==
    bpc \in {"read", "done", "error"} =>
        /\ bpc # "error"
        /\ [i \in 1..Len(b1) |-> DataLine(b1[i].t, b1[i].e)] = DataRows(fs[fname])

(***************************************************************************)
(* Properties of lidar_from_csv                                            *)
(***************************************************************************)

Dist(a, b) == IF a >= b THEN a - b ELSE b - a

\* the 0-based index idx lies in the sorted coord and no element of coord is
\* nearer to v than coord's element at idx
NearestInGrid(coord, v, idx) ==
    /\ idx < Len(coord)
    /\ \A j \in 1..Len(coord) : Dist(coord[idx + 1], v) <= Dist(coord[j], v)

\* C5: every wind row goes to the grid cell of the nearest Time and the
\* nearest Range, and the indices computed lie inside the grid.
C5_NearestCellInGrid ==
    lpc \in {"merged", "done"} =>
        /\ \A k \in DOMAIN row_indices :
              NearestInGrid(time_coord, wind_times[k], row_indices[k])
        /\ \A k \in DOMAIN col_indices :
              NearestInGrid(range_coord, wind_ranges[k], col_indices[k])

\* C8: for every set of measurement columns in the CSV the import completes,
\* and the dataset holds exactly the measurement variables that are present.
C8_ImportsAnySubset ==
    lpc \in {"done", "error"} =>
        /\ lpc = "done"
        /\ data_vars \ {"Windspeed"} = {Renamed(v) : v \in csv_columns}

(***************************************************************************)
(* Properties of mwr_from_csv                                              *)
(***************************************************************************)

\* the header lines of type code t, and the last of them
HeadersOf(t) == {i \in 1..Len(lines) : lines[i].rec /\ lines[i].type = t}
LastHeaderOf(t) == CHOOSE i \in HeadersOf(t) : \A j \in HeadersOf(t) : j <= i

\* the lines whose type code is one of t+1 .. t+4, in file order
InRange(t) ==
    SelectSeq([i \in 1..Len(lines) |-> i],
              LAMBDA i : lines[i].type > t /\ lines[i].type <= t + 4)

\* the data rows of the table of type code t
RowsOf(t) == {csvs[t][k] : k \in 2..Len(csvs[t])}

\* there is a table for exactly the header type codes with lines in range
TablesExist ==
    DOMAIN csvs = {t \in TypeCodes : HeadersOf(t) # {} /\ InRange(t) # <<>>}

\* no line is a data row of two tables, and no header line is a data row
Disjoint ==
    /\ \A i \in 1..Len(lines) :
          Cardinality({t \in DOMAIN csvs : i \in RowsOf(t)}) <= 1
    /\ \A i \in 1..Len(lines) :
          lines[i].rec => \A t \in DOMAIN csvs : i \notin RowsOf(t)

\* C6 as stated: the table of each header line holds that header line and
\* then the lines of type T+1 .. T+4 in file order; a header without such
\* lines has no table; the tables share no line and hold no header line as
\* a data row.
C6_SplitsDisjointly ==
    mpc = "done" =>
        /\ TablesExist
        /\ \A h \in 1..Len(lines) :
              (lines[h].rec /\ lines[h].type \in DOMAIN csvs) =>
                  csvs[lines[h].type] = <<h>> \o InRange(lines[h].type)
        /\ Disjoint

\* the type codes of the header lines are equal or at least 5 apart
HeadersApart ==
    \A i \in 1..Len(lines), j \in 1..Len(lines) :
        (lines[i].rec /\ lines[j].rec) =>
            \/ lines[i].type = lines[j].type
            \/ Dist(lines[i].type, lines[j].type) >= 5

\* C6 amended: the table of a header type code T holds the last header line
\* of that type and then every line, header or not, of type T+1 .. T+4 in
\* file order; a header type without such lines has no table; the tables
\* share no line and hold no header line as a data row when the header type
\* codes are at least 5 apart.
C6_SplitsByTypeRange ==
    mpc = "done" =>
        /\ TablesExist
        /\ \A t \in DOMAIN csvs : csvs[t] = <<LastHeaderOf(t)>> \o InRange(t)
        /\ HeadersApart => Disjoint

\* a dump with two header types at least 5 apart has been split in two tables
C6_Witness ==
    /\ mpc = "done"
    /\ HeadersApart
    /\ Cardinality(DOMAIN csvs) = 2

(***************************************************************************)
(* Properties of decode_rrs                                                *)
(***************************************************************************)

\* the directory a path denotes: whether it is absolute, and its components
\* ('' is the working directory, as '.')
Denotes(s) == <<LeadingSlashes(s) > 0, PathParts(s)>>

\* the number of '/' s ends with
TrailingSlashes(s) ==
    Cardinality({k \in 1..Len(s) : \A j \in k..Len(s) : s[j] = "/"})

\* C7: the decoder is called once, with bufrin and outputs as given and an
\* output directory that denotes outdir and ends with exactly one '/'.
C7_ForwardsWithOneSlash ==
    rpc = "done" =>
        /\ Len(calls) = 1
        /\ calls[1][1] = bufrin
        /\ calls[1][2] = outputs
        /\ Denotes(calls[1][3]) = Denotes(outdir)
        /\ TrailingSlashes(calls[1][3]) = 1

====
